---- MODULE Spec2Model ----
(***************************************************************************)
(* A model of the assemblyline-core dispatching configuration              *)
(* (src/dispatching/configuration.py): the Scheduler's category expansion  *)
(* and schedule construction, run one statement group at a time, and the   *)
(* dispatcher state machine that drives files through those schedules.     *)
(*                                                                         *)
(* Python strings that the code takes apart (service and category names,   *)
(* whose characters set.update() adds one by one; file types and patterns, *)
(* which re.match walks) are tuples of one-character strings: 'ab' is      *)
(* <<"a", "b">>.  Stage names are only compared, and stay TLA+ strings.    *)
(***************************************************************************)
EXTENDS Integers, Sequences, FiniteSets, TLC

VARIABLES
    registry,          \* datastore.services: the Service records, in search order
    stages,            \* the configured stage list (DispatchConfig.stages)
    submission,        \* build_schedule's argument: selected/excluded categories
    file_type,         \* build_schedule's argument
    pc,                \* position in build_schedule
    epc,               \* position in expand_categories
    services,          \* expand_categories: the work list (a Python list used as a stack)
    name,              \* expand_categories: the name popped last
    found_services,    \* expand_categories: the names found
    seen_categories,   \* expand_categories: the seen set
    expanded,          \* the category names whose members this expansion has pushed (history)
    excluded,          \* build_schedule: the expanded excluded list
    selected,          \* build_schedule: the selected names
    schedule,          \* build_schedule's return value
    \* the dispatcher
    dsub,              \* the submission pushed to the dispatcher
    sub_status,        \* "queued" (pushed, not yet ingested), "incomplete", "complete"
    files,             \* registered file -> its state, stage, outstanding set, schedule
    scheduling,        \* the files whose schedule the dispatcher is computing (at most one)
    task_queue,        \* the tasks on the per-service queues
    working,           \* the tasks the service threads have popped and hold
    lost,              \* the tasks a service thread let go without a signal (history)
    signals,           \* the finished/failed signals on their way to the dispatcher
    redelivered,       \* how many finished signals the transport has doubled
    failures,          \* task -> failed signals counted for it
    enqueues,          \* task -> how many times it was enqueued
    errors,            \* the (file, service) pairs with a terminal error
    results,           \* the keys of the stored results
    metrics,           \* the dispatcher's counters
    \* config_hash, in the processes that compute it
    config,            \* a service's effective configuration
    config2,           \* the same configuration as another structure holds it
    hpc,               \* the process: "down", "up", "hashed", "done"
    hashseed,          \* the running process's string-hash seed (PYTHONHASHSEED)
    normal,            \* normalize_data of config, of config2, and of config's normalized form
    hashes,            \* config_hash of config and of config2, in the running process
    result_keys,       \* the result keys that processes have built for config
    \* ExpiryManager
    now,               \* the datastore's clock
    collection,        \* the expirable collection: its name, and record id -> expiry_ts
    expiry_config,     \* config.core.expiry: delete_storage, batch_delete, delay
    blobs,             \* the ids with a blob in the object store
    xpc,               \* position in try_run
    number_to_delete,  \* try_run's local
    stream,            \* the records the open stream_search has still to yield
    futures,           \* res: record id -> the state of its submitted blob deletion
    counter,           \* the expiry counter of the collection
    deleted,           \* the records this sweep's delete_matching deleted (history)
    calls,             \* the datastore and counter calls of this sweep, in order (history)
    \* Archiver
    archive_queue,     \* the messages on the archive queue
    message,           \* the message run_once popped last
    submission_loaded, \* run_once's local `submission`
    fresh,             \* the submission was loaded from the hot store, not the archive (history)
    hot,               \* the hot store: submission id -> record
    archive,           \* the archive: submission id -> record
    file_archive,      \* the files archived in the datastore
    archivestore,      \* the blobs in the archive store
    result_archive,    \* the results archived in the datastore
    stores_differ,     \* self.filestore != self.archivestore
    todo_files,        \* the files the loop of line 101 has still to visit
    todo_results,      \* the results the loop of line 115 has still to visit
    apc,               \* position in run_once
    counters,          \* the archiver's metric counters
    outcome            \* how the last run_once that processed a message ended (history)

svars == <<registry, stages, submission, file_type, pc, epc, services, name,
           found_services, seen_categories, expanded, excluded, selected, schedule>>

dvars == <<dsub, sub_status, files, scheduling, task_queue, working, lost, signals,
           redelivered, failures, enqueues, errors, results, metrics>>

hvars == <<config, config2, hpc, hashseed, normal, hashes, result_keys>>

\* the variables of the programs other than the Scheduler and the dispatcher
evars == <<now, collection, expiry_config, blobs, xpc, number_to_delete, stream, futures,
           counter, deleted, calls>>

avars == <<archive_queue, message, submission_loaded, fresh, hot, archive, file_archive,
           archivestore, result_archive, stores_differ, todo_files, todo_results, apc,
           counters, outcome>>

ovars == <<hvars, evars, avars>>

vars == <<svars, dvars, ovars>>

----------------------------------------------------------------------------
(* Strings *)

A == <<"a">>
B == <<"b">>
AB == <<"a", "b">>
T == <<"t">>
TX == <<"t", "x">>
X == <<"x">>
EMPTY == <<>>
ANY == <<".", "*">>

\* Scheduler.system_category = 'system'
system_category == <<"s", "y", "s", "t", "e", "m">>

\* The elements of iterating a Python string: its one-character substrings.
Chars(s) == { <<s[i]>> : i \in 1..Len(s) }

----------------------------------------------------------------------------
(* re.match(pattern, string) for patterns built from literal characters,   *)
(* '.' and '*': true when some prefix of the string matches the pattern    *)
(* (re.match anchors at the start only).                                   *)

RECURSIVE MatchHere(_, _)

MatchStar(c, p, s) ==
    \E k \in 0..Len(s) :
        /\ \A i \in 1..k : c = "." \/ s[i] = c
        /\ MatchHere(p, SubSeq(s, k + 1, Len(s)))

MatchHere(p, s) ==
    IF p = <<>> THEN TRUE
    ELSE IF Len(p) >= 2 /\ p[2] = "*" THEN MatchStar(p[1], SubSeq(p, 3, Len(p)), s)
    ELSE /\ s # <<>>
         /\ (p[1] = "." \/ p[1] = s[1])
         /\ MatchHere(Tail(p), Tail(s))

re_match(pattern, string) == MatchHere(pattern, string)

----------------------------------------------------------------------------
(* The registry *)

\* Service(name, category, stage, accepts, rejects, failure_limit)
Service(n, c, st, acc, rej, fl) ==
    [name |-> n, category |-> c, stage |-> st, accepts |-> acc, rejects |-> rej,
     failure_limit |-> fl]

\* Scheduler.services(): the dict name -> service, here its key set and lookup.
ServiceNames(reg) == { reg[i].name : i \in DOMAIN reg }

HasService(reg, n) == n \in ServiceNames(reg)

GetService(reg, n) == reg[CHOOSE i \in DOMAIN reg : reg[i].name = n]

\* Scheduler.categories(): category -> the list of its services' names, in the
\* order services() yields them.
RECURSIVE MembersOf(_, _)
MembersOf(reg, c) ==
    IF reg = <<>> THEN <<>>
    ELSE (IF Head(reg).category = c THEN <<Head(reg).name>> ELSE <<>>)
         \o MembersOf(Tail(reg), c)

categories(reg) ==
    [c \in { reg[i].category : i \in DOMAIN reg } |-> MembersOf(reg, c)]

\* Scheduler.stages, which lines 80 and 156 call as self.stages(), is defined
\* nowhere: the class has no such method or attribute, and no base class.  On
\* the code as it stands the call raises AttributeError (action Finish).
\* The variable `stages` is the Stage List of spec.md 3 (DispatchConfig.stages,
\* line 23, declares it); the operators below that read it, and the action
\* FinishWithStages, give lines 80-102 and 155-156 as they run when
\* self.stages() returns that list.
\*
\* Scheduler.stage_index: list.index, which raises ValueError for a value not
\* in the list; StageKnown is its precondition.  Python counts positions from
\* 0 and TLA+ sequences from 1: position i here is Python's i - 1.
StageKnown(stage) == \E i \in DOMAIN stages : stages[i] = stage

stage_index(stage) == CHOOSE i \in DOMAIN stages :
    /\ stages[i] = stage
    /\ \A j \in DOMAIN stages : stages[j] = stage => i <= j

----------------------------------------------------------------------------
(* build_schedule, lines 74-102: the statements after the two expansions.  *)
(* The code holds `selected` and `excluded` in lists and reads them only   *)
(* through set(): they are sets here.                                      *)

\* lines 75-77: every system service is appended to the selected names
SystemServices(reg) == { n \in ServiceNames(reg) : GetService(reg, n).category = system_category }

WithSystem(reg, sel) == sel \cup SystemServices(reg)

\* Candidates without the subtraction of the excluded names
CandidatesKeepExcluded(sel, excl) == sel

\* line 81: services = list(set(selected) - set(excluded))
Candidates(sel, excl) == sel \ excl

\* The accept/reject test without its reject half
AcceptedIgnoringRejects(service, ft) == re_match(service.accepts, ft)

\* line 96: the accept/reject test
Accepted(service, ft) ==
    /\ re_match(service.accepts, ft)
    /\ (service.rejects = <<>> \/ ~re_match(service.rejects, ft))

\* lines 84-100: the names the loop places (the others are skipped)
Placed(reg, cands, ft) ==
    { n \in cands : HasService(reg, n) /\ Accepted(GetService(reg, n), ft) }

\* line 97 raises ValueError (stage_index) for a placed service of unknown stage
PlacementRaises(reg, cands, ft) ==
    \E n \in Placed(reg, cands, ft) : ~StageKnown(GetService(reg, n).stage)

\* Every placed service put in the first bucket
BucketOfFirstStage(service) == 1

\* line 97: the bucket a placed service goes to
BucketOf(service) == stage_index(service.stage)

\* lines 80-102: one dict per stage, name -> service
BuildBuckets(reg, cands, ft) ==
    [i \in 1..Len(stages) |->
        [n \in { m \in Placed(reg, cands, ft) : BucketOf(GetService(reg, m)) = i }
            |-> GetService(reg, n)]]

----------------------------------------------------------------------------
(* Bounds and the inputs drawn within them *)

MaxServices == 2      \* registered services
MaxSelected == 2      \* length of submission.selected_categories
MaxExcluded == 1      \* length of submission.excluded_categories
MaxWork == 4          \* length of expand_categories' work list

SeqsUpTo(S, n) == UNION { [1..k -> S] : k \in 0..n }

\* Services a registry may hold.  Names and categories share one namespace:
\* a service may carry the name of a category (of its own or of another).
ServicePool ==
    { Service(A,  B,  "pre",  ANY,   EMPTY, 2),
      Service(B,  A,  "post", ANY,   TX,    2),
      Service(AB, AB, "pre",  T,     EMPTY, 2),
      Service(A,  A,  "pre",  EMPTY, EMPTY, 2),
      Service(B,  system_category, "post", ANY, EMPTY, 2),
      Service(AB, system_category, "post", ANY, T,     2),
      Service(A,  AB, "pre",  ANY,   EMPTY, 2),
      Service(AB, A,  "final", ANY,  EMPTY, 2) }

Registries ==
    { r \in SeqsUpTo(ServicePool, MaxServices) :
        \A i, j \in DOMAIN r : r[i].name = r[j].name => i = j }

Selectors == {A, AB, system_category}

\* "final", the stage of one service of the pool, is in no stage list
StageLists == { <<"pre", "core", "post">> }

FileTypes == {T, TX, X}

----------------------------------------------------------------------------
(* Scheduler.build_schedule and Scheduler.expand_categories, step by step  *)

\* expand_categories, lines 113-117
EnterExpand(list) ==
    /\ services' = list
    /\ found_services' = {}
    /\ seen_categories' = {}
    /\ expanded' = {}
    /\ epc' = "while"

\* build_schedule, lines 65-68: the call expand_categories(excluded_categories)
Start ==
    /\ pc = "start"
    /\ pc' = "excluded"
    /\ EnterExpand(submission.excluded_categories)
    /\ UNCHANGED <<dvars, ovars>>
    /\ UNCHANGED <<registry, stages, submission, file_type, name, excluded, selected, schedule>>

\* lines 118-119: while services: name = services.pop()
ExpandPop ==
    /\ epc = "while"
    /\ services # <<>>
    /\ name' = services[Len(services)]
    /\ services' = SubSeq(services, 1, Len(services) - 1)
    /\ epc' = "name"
    /\ UNCHANGED <<dvars, ovars>>
    /\ UNCHANGED <<registry, stages, submission, file_type, pc, found_services,
                   seen_categories, expanded, excluded, selected, schedule>>

\* line 128: seen_categories.update(name) adds the elements of iterating name
SeenUpdate(seen, n) == seen \cup Chars(n)

\* lines 122-132.  A work list that would outgrow MaxWork ends the run of the
\* model ("cut"): the code goes on, the model does not follow it.
ExpandVisit ==
    /\ epc = "name"
    /\ IF name \in DOMAIN categories(registry)
          THEN /\ UNCHANGED found_services
               /\ IF name \in seen_categories
                    THEN /\ epc' = "while"
                         /\ UNCHANGED <<services, seen_categories, expanded, pc>>
                    ELSE IF Len(services) + Len(categories(registry)[name]) <= MaxWork
                           THEN /\ services' = services \o categories(registry)[name]
                                /\ seen_categories' = SeenUpdate(seen_categories, name)
                                /\ expanded' = expanded \cup {name}
                                /\ epc' = "while"
                                /\ UNCHANGED pc
                           ELSE /\ pc' = "cut"
                                /\ epc' = "none"
                                /\ UNCHANGED <<services, seen_categories, expanded>>
          ELSE /\ found_services' = found_services \cup {name}
               /\ epc' = "while"
               /\ UNCHANGED <<services, seen_categories, expanded, pc>>
    /\ UNCHANGED <<dvars, ovars>>
    /\ UNCHANGED <<registry, stages, submission, file_type, name, excluded, selected, schedule>>

\* line 135 for the excluded list, then lines 69-72
ReturnExcluded ==
    /\ pc = "excluded"
    /\ epc = "while"
    /\ services = <<>>
    /\ excluded' = found_services
    /\ IF submission.selected_categories = <<>>
          THEN /\ selected' = ServiceNames(registry)
               /\ pc' = "filter"
               /\ epc' = "none"
               /\ UNCHANGED <<services, found_services, seen_categories, expanded>>
          ELSE /\ pc' = "selected"
               /\ EnterExpand(submission.selected_categories)
               /\ UNCHANGED selected
    /\ UNCHANGED <<dvars, ovars>>
    /\ UNCHANGED <<registry, stages, submission, file_type, name, schedule>>

\* line 135 for the selected list
ReturnSelected ==
    /\ pc = "selected"
    /\ epc = "while"
    /\ services = <<>>
    /\ selected' = found_services
    /\ pc' = "filter"
    /\ epc' = "none"
    /\ UNCHANGED <<dvars, ovars>>
    /\ UNCHANGED <<registry, stages, submission, file_type, services, name,
                   found_services, seen_categories, expanded, excluded, schedule>>

\* lines 74-80, as the code stands: the system services are appended to the
\* local list `selected` (lines 75-77), and line 80 evaluates self.stages(),
\* which raises AttributeError: build_schedule ends by that exception on
\* every call, before the loop of lines 84-100, and returns no schedule.
Finish ==
    /\ pc = "filter"
    /\ pc' = "raised"
    /\ UNCHANGED <<dvars, ovars>>
    /\ UNCHANGED <<registry, stages, submission, file_type, epc, services, name,
                   found_services, seen_categories, expanded, excluded, selected,
                   schedule>>

\* lines 74-102 with self.stages() returning the stage list
FinishWithStages ==
    /\ pc = "filter"
    /\ LET cands == Candidates(WithSystem(registry, selected), excluded)
       IN IF PlacementRaises(registry, cands, file_type)
            THEN /\ pc' = "raised"
                 /\ UNCHANGED schedule
            ELSE /\ pc' = "returned"
                 /\ schedule' = BuildBuckets(registry, cands, file_type)
    /\ UNCHANGED <<dvars, ovars>>
    /\ UNCHANGED <<registry, stages, submission, file_type, epc, services, name,
                   found_services, seen_categories, expanded, excluded, selected>>

----------------------------------------------------------------------------
(* The dispatcher (spec.md 4.4 and 5).  One submission is pushed; its      *)
(* declared file is F1, and a result may declare an extracted file.  The   *)
(* dispatcher is one loop: it handles one event at a time, and computes a  *)
(* file's schedule by calling Scheduler.build_schedule (the steps above).  *)
(* The service workers run on their own.                                   *)

F1 == "F1"
F2 == "F2"
Files == {F1, F2}

\* The declared type of each file
FileTypeOf(f) == IF f = F1 THEN T ELSE X

\* The files a result for a task on f may declare as extracted
ExtractedBy(f) == IF f = F1 THEN {{}, {F2}} ELSE {{}}

\* ServiceTask: one file assigned to one service (within the one submission)
Task(f, s) == [file |-> f, service |-> s]

AllTasks == { Task(f, s) : f \in Files, s \in {A, B, AB} }

\* A failure limit that allows one failure more
FailureLimitPlusOne(service) == service.failure_limit + 1

\* Service.failure_limit
FailureLimit(service) == service.failure_limit

PendingFile == [state |-> "pending", stage |-> 0, outstanding |-> {}, schedule |-> <<>>]

\* A stored Result: its key (file, service; the version and the configuration
\* are fixed) and the extracted files it declares
Result(t, ex) == [task |-> t, extracted |-> ex]

HasResult(res, t) == \E r \in res : r.task = t

\* The services of bucket k with no stored result for the file (the others
\* are cache hits, resolved at once)
Unresolved(sch, k, f, res) == { s \in DOMAIN sch[k] : ~HasResult(res, Task(f, s)) }

\* The first stage from k on with a service to wait for; 0 when none is left
RECURSIVE NextStage(_, _, _, _)
NextStage(sch, k, f, res) ==
    IF k > Len(sch) THEN 0
    ELSE IF Unresolved(sch, k, f, res) # {} THEN k
    ELSE NextStage(sch, k + 1, f, res)

\* The file's record on entering the stages from k on
EnterStage(sch, k, f, res) ==
    LET n == NextStage(sch, k, f, res)
    IN  IF n = 0
          THEN [state |-> "done", stage |-> Len(sch) + 1, outstanding |-> {}, schedule |-> sch]
          ELSE [state |-> "awaiting", stage |-> n,
                outstanding |-> Unresolved(sch, n, f, res), schedule |-> sch]

\* The status that takes a file still to be scheduled for a finished one
StatusForIgnoringPending(fs) ==
    IF \A f \in DOMAIN fs : fs[f].state \in {"done", "pending"}
      THEN "complete" ELSE "incomplete"

\* The submission's status once the files are fs
StatusFor(fs) ==
    IF \A f \in DOMAIN fs : fs[f].state = "done" THEN "complete" ELSE "incomplete"

\* The files of a finished result that get registered: those not registered yet
NewFiles(fs, extracted) == extracted \ DOMAIN fs

Register(fs, new) == [f \in DOMAIN fs \cup new |-> IF f \in DOMAIN fs THEN fs[f] ELSE PendingFile]

\* The finished counter counting every finished signal
CountFinishedAlways(m, resolves) == [m EXCEPT !.finished = @ + 1]

\* The finished counter after a finished signal, counted when it resolves its pair
CountFinished(m, resolves) ==
    IF resolves THEN [m EXCEPT !.finished = @ + 1] ELSE m

\* The dispatcher takes the submission off the submission queue
Ingest ==
    /\ pc = "idle"
    /\ sub_status = "queued"
    /\ sub_status' = "incomplete"
    /\ files' = [f \in dsub.files |-> PendingFile]
    /\ UNCHANGED <<svars, ovars>>
    /\ UNCHANGED <<dsub, working, lost, scheduling, task_queue, signals, redelivered,
                   failures, enqueues, errors, results, metrics>>

\* The dispatcher asks the Scheduler for the schedule of a registered file
ScheduleFile(f) ==
    /\ pc = "idle"
    /\ f \in DOMAIN files
    /\ files[f].state = "pending"
    /\ scheduling' = {f}
    /\ submission' = [selected_categories |-> dsub.selected_categories,
                      excluded_categories |-> dsub.excluded_categories]
    /\ file_type' = FileTypeOf(f)
    /\ pc' = "start"
    /\ UNCHANGED <<registry, stages, epc, services, name, found_services,
                   seen_categories, expanded, excluded, selected, schedule>>
    /\ UNCHANGED <<dsub, working, lost, sub_status, files, task_queue, signals, redelivered,
                   failures, enqueues, errors, results, metrics>>
    /\ UNCHANGED ovars

\* build_schedule returned: the file enters its first stage with work
Scheduled ==
    /\ pc = "returned"
    /\ \E f \in scheduling :
        LET rec == EnterStage(schedule, 1, f, results)
            fs == [files EXCEPT ![f] = rec]
            new == { Task(f, s) : s \in rec.outstanding }
        IN  /\ files' = fs
            /\ task_queue' = task_queue \cup new
            /\ enqueues' = [t \in AllTasks |-> IF t \in new THEN enqueues[t] + 1 ELSE enqueues[t]]
            /\ sub_status' = StatusFor(fs)
    /\ scheduling' = {}
    /\ pc' = "idle"
    /\ UNCHANGED <<registry, stages, submission, file_type, epc, services, name,
                   found_services, seen_categories, expanded, excluded, selected, schedule>>
    /\ UNCHANGED <<dsub, working, lost, signals, redelivered, failures, errors, results, metrics>>
    /\ UNCHANGED ovars

\* build_schedule raised: the file cannot be scheduled, and is done with an
\* error annotation
ScheduleFailed ==
    /\ pc = "raised"
    /\ \E f \in scheduling :
        LET fs == [files EXCEPT ![f] = [state |-> "done", stage |-> 0, outstanding |-> {},
                                        schedule |-> <<>>]]
        IN  /\ files' = fs
            /\ sub_status' = StatusFor(fs)
            /\ metrics' = [metrics EXCEPT !.unscheduled = @ + 1]
    /\ scheduling' = {}
    /\ pc' = "idle"
    /\ UNCHANGED <<registry, stages, submission, file_type, epc, services, name,
                   found_services, seen_categories, expanded, excluded, selected, schedule>>
    /\ UNCHANGED <<dsub, working, lost, task_queue, signals, redelivered, failures, enqueues,
                   errors, results>>
    /\ UNCHANGED ovars

MaxRedelivered == 1   \* finished signals the transport delivers a second time

\* MockService.run, lines 110-111: the service's thread pops a task off its
\* queue and sleeps; the thread holds one task at a time
WorkerPop(t) ==
    /\ t \in task_queue
    /\ \A u \in working : u.service # t.service
    /\ task_queue' = task_queue \ {t}
    /\ working' = working \cup {t}
    /\ UNCHANGED <<svars, ovars>>
    /\ UNCHANGED <<dsub, lost, sub_status, files, scheduling, signals, redelivered,
                   failures, enqueues, errors, results, metrics>>

\* lines 113-114: the thread goes on to its next pop and signals nothing for
\* the task it holds
WorkerDrop(t) ==
    /\ t \in working
    /\ working' = working \ {t}
    /\ lost' = lost \cup {t}
    /\ UNCHANGED <<svars, ovars>>
    /\ UNCHANGED <<dsub, sub_status, files, scheduling, task_queue, signals,
                   redelivered, failures, enqueues, errors, results, metrics>>

\* lines 120-121: the thread signals finished for the task it holds, with the
\* files its result declares.  Delivery is at-least-once: the signal may
\* arrive twice (copies).
ServiceFinished(t) ==
    /\ t \in working
    /\ working' = working \ {t}
    /\ \E ex \in ExtractedBy(t.file) :
       \E c \in (IF redelivered < MaxRedelivered THEN {1, 2} ELSE {1}) :
         /\ signals' = signals \cup
                {[kind |-> "finished", task |-> t, extracted |-> ex, copies |-> c]}
         /\ redelivered' = redelivered + (c - 1)
    /\ UNCHANGED <<svars, ovars>>
    /\ UNCHANGED <<dsub, lost, task_queue, sub_status, files, scheduling, failures,
                   enqueues, errors, results, metrics>>

\* lines 116-118: the thread signals failed for the task it holds
ServiceFailed(t) ==
    /\ t \in working
    /\ working' = working \ {t}
    /\ signals' = signals \cup {[kind |-> "failed", task |-> t, extracted |-> {}, copies |-> 1]}
    /\ UNCHANGED <<svars, ovars>>
    /\ UNCHANGED <<dsub, lost, task_queue, sub_status, files, scheduling, redelivered,
                   failures, enqueues, errors, results, metrics>>

\* The pair of a task is one the dispatcher waits for
Outstanding(t) ==
    /\ t.file \in DOMAIN files
    /\ files[t.file].state = "awaiting"
    /\ t.service \in files[t.file].outstanding

\* The file's record with service s resolved: the stage closes when s was the
\* last one outstanding
Resolve(f, s, res) ==
    LET left == files[f].outstanding \ {s}
    IN  IF left = {}
          THEN EnterStage(files[f].schedule, files[f].stage + 1, f, res)
          ELSE [files[f] EXCEPT !.outstanding = left]

\* The tasks enqueued when file f goes from record old to record new
Opened(f, old, new) ==
    IF new.stage # old.stage THEN { Task(f, s) : s \in new.outstanding } ELSE {}

\* The signals left when one delivery of sig is consumed
Consume(sigs, sig) ==
    IF sig.copies > 1
      THEN (sigs \ {sig}) \cup {[sig EXCEPT !.copies = @ - 1]}
      ELSE sigs \ {sig}

\* The dispatcher consumes a finished signal
HandleFinished(sig) ==
    /\ pc = "idle"
    /\ sig \in signals
    /\ sig.kind = "finished"
    /\ signals' = Consume(signals, sig)
    /\ metrics' = CountFinished(metrics, Outstanding(sig.task))
    /\ IF Outstanding(sig.task)
         THEN LET f == sig.task.file
                  res == results \cup {Result(sig.task, sig.extracted)}
                  rec == Resolve(f, sig.task.service, res)
                  new == Opened(f, files[f], rec)
                  fs == Register([files EXCEPT ![f] = rec], NewFiles(files, sig.extracted))
              IN  /\ results' = res
                  /\ files' = fs
                  /\ task_queue' = task_queue \cup new
                  /\ enqueues' = [t \in AllTasks |->
                                    IF t \in new THEN enqueues[t] + 1 ELSE enqueues[t]]
                  /\ sub_status' = StatusFor(fs)
         ELSE UNCHANGED <<results, files, task_queue, enqueues, sub_status>>
    /\ UNCHANGED <<svars, ovars>>
    /\ UNCHANGED <<dsub, working, lost, scheduling, redelivered, failures, errors>>

\* The dispatcher consumes a failed signal
HandleFailed(sig) ==
    /\ pc = "idle"
    /\ sig \in signals
    /\ sig.kind = "failed"
    /\ signals' = signals \ {sig}
    /\ IF Outstanding(sig.task)
         THEN LET t == sig.task
                  f == t.file
              IN  /\ failures' = [failures EXCEPT ![t] = @ + 1]
                  /\ metrics' = [metrics EXCEPT !.failed = @ + 1]
                  /\ IF failures[t] < FailureLimit(GetService(registry, t.service))
                       THEN \* retry: the same task goes back on its queue
                            /\ task_queue' = task_queue \cup {t}
                            /\ enqueues' = [enqueues EXCEPT ![t] = @ + 1]
                            /\ UNCHANGED <<errors, files, sub_status>>
                       ELSE \* terminal: the pair is resolved by an error
                            LET rec == Resolve(f, t.service, results)
                                new == Opened(f, files[f], rec)
                                fs == [files EXCEPT ![f] = rec]
                            IN  /\ errors' = errors \cup {t}
                                /\ files' = fs
                                /\ task_queue' = task_queue \cup new
                                /\ enqueues' = [u \in AllTasks |->
                                                  IF u \in new THEN enqueues[u] + 1
                                                  ELSE enqueues[u]]
                                /\ sub_status' = StatusFor(fs)
         ELSE UNCHANGED <<failures, metrics, task_queue, enqueues, errors, files, sub_status>>
    /\ UNCHANGED <<svars, ovars>>
    /\ UNCHANGED <<dsub, working, lost, scheduling, redelivered, results>>

----------------------------------------------------------------------------
(* normalize_data and config_hash (configuration.py, lines 8-18).  A       *)
(* Python value is a record of its type and its content: a dict is the     *)
(* sequence of its (key, value) items in insertion order, with distinct    *)
(* keys; keys are one-character strings.                                   *)

PyInt(i) == [t |-> "int", v |-> i]
PyStr(c) == [t |-> "str", v |-> c]
PyList(items) == [t |-> "list", v |-> items]
PyTuple(items) == [t |-> "tuple", v |-> items]
PyDict(items) == [t |-> "dict", v |-> items]

\* ord() of the characters in use
Ord(c) == CASE c = "a" -> 97 [] c = "b" -> 98 [] c = "c" -> 99

\* data.keys() and data[k]
DictKeys(data) == { data.v[i].k : i \in DOMAIN data.v }

DictGet(data, key) == data.v[CHOOSE i \in DOMAIN data.v : data.v[i].k = key].val

\* sorted(keys): strings in ascending order of their characters
RECURSIVE SortedSeq(_)
SortedSeq(keys) ==
    IF keys = {} THEN <<>>
    ELSE LET least == CHOOSE k \in keys : \A j \in keys : Ord(k) <= Ord(j)
         IN  <<least>> \o SortedSeq(keys \ {least})

\* The keys in the order the dict holds them
insertion_order(data) == [i \in DOMAIN data.v |-> data.v[i].k]

\* line 10: sorted(data.keys())
sorted_keys(data) == SortedSeq(DictKeys(data))

\* A mapping normalized to the flat tuple of its keys and values
\* (k1, v1, k2, v2, ...) in place of the tuple of its (key, value) pairs
RECURSIVE normalize_flat(_)
normalize_flat(data) ==
    IF data.t = "dict"
      THEN LET ks == sorted_keys(data)
           IN  PyTuple([i \in 1..(2 * Len(ks)) |->
                          IF i % 2 = 1
                            THEN PyStr(ks[(i + 1) \div 2])
                            ELSE normalize_flat(DictGet(data, ks[i \div 2]))])
    ELSE IF data.t \in {"list", "tuple"}
      THEN PyTuple([i \in DOMAIN data.v |-> normalize_flat(data.v[i])])
    ELSE data

\* lines 8-14
RECURSIVE normalize_data(_)
normalize_data(data) ==
    IF data.t = "dict"
      THEN LET ks == sorted_keys(data)
           IN  PyTuple([i \in 1..Len(ks) |->
                          PyTuple(<<PyStr(ks[i]), normalize_data(DictGet(data, ks[i]))>>)])
    ELSE IF data.t \in {"list", "tuple"}
      THEN PyTuple([i \in DOMAIN data.v |-> normalize_data(data.v[i])])
    ELSE data

MaxItems == 2         \* items of a dict, elements of a list inside a configuration
MaxOuter == 2         \* elements of a list that is the configuration
MaxNodes == 5         \* values of a configuration: itself, its containers, its scalars

\* The seeds a process may draw (0 is PYTHONHASHSEED=0: no randomization)
HashSeeds == {0, 1}

(* A hash value is a Py_hash_t: a word of 64 bits, held as its eight bytes, *)
(* the lowest first.  The arithmetic of CPython's hash is on unsigned words *)
(* (Py_uhash_t), modulo 2^64.                                               *)

\* The word of a natural number below 2^31
Word(n) == <<n % 256, (n \div 256) % 256, (n \div 65536) % 256, n \div 16777216, 0, 0, 0, 0>>

\* a + b modulo 2^64
Add64(a, b) ==
    LET s1 == a[1] + b[1]
        s2 == a[2] + b[2] + (s1 \div 256)
        s3 == a[3] + b[3] + (s2 \div 256)
        s4 == a[4] + b[4] + (s3 \div 256)
        s5 == a[5] + b[5] + (s4 \div 256)
        s6 == a[6] + b[6] + (s5 \div 256)
        s7 == a[7] + b[7] + (s6 \div 256)
        s8 == a[8] + b[8] + (s7 \div 256)
    IN  <<s1 % 256, s2 % 256, s3 % 256, s4 % 256, s5 % 256, s6 % 256, s7 % 256, s8 % 256>>

\* a * b modulo 2^64
Mul64(a, b) ==
    LET c1 == a[1] * b[1]
        c2 == a[1] * b[2] + a[2] * b[1] + (c1 \div 256)
        c3 == a[1] * b[3] + a[2] * b[2] + a[3] * b[1] + (c2 \div 256)
        c4 == a[1] * b[4] + a[2] * b[3] + a[3] * b[2] + a[4] * b[1] + (c3 \div 256)
        c5 == a[1] * b[5] + a[2] * b[4] + a[3] * b[3] + a[4] * b[2] + a[5] * b[1]
                + (c4 \div 256)
        c6 == a[1] * b[6] + a[2] * b[5] + a[3] * b[4] + a[4] * b[3] + a[5] * b[2]
                + a[6] * b[1] + (c5 \div 256)
        c7 == a[1] * b[7] + a[2] * b[6] + a[3] * b[5] + a[4] * b[4] + a[5] * b[3]
                + a[6] * b[2] + a[7] * b[1] + (c6 \div 256)
        c8 == a[1] * b[8] + a[2] * b[7] + a[3] * b[6] + a[4] * b[5] + a[5] * b[4]
                + a[6] * b[3] + a[7] * b[2] + a[8] * b[1] + (c7 \div 256)
    IN  <<c1 % 256, c2 % 256, c3 % 256, c4 % 256, c5 % 256, c6 % 256, c7 % 256, c8 % 256>>

\* a rotated left by 31 bits: by 32 bits to the left, then by one to the right
Rotl31(a) ==
    <<(a[5] \div 2) + ((a[6] % 2) * 128), (a[6] \div 2) + ((a[7] % 2) * 128),
      (a[7] \div 2) + ((a[8] % 2) * 128), (a[8] \div 2) + ((a[1] % 2) * 128),
      (a[1] \div 2) + ((a[2] % 2) * 128), (a[2] \div 2) + ((a[3] % 2) * 128),
      (a[3] \div 2) + ((a[4] % 2) * 128), (a[4] \div 2) + ((a[5] % 2) * 128)>>

\* x ^ y of two natural numbers
RECURSIVE Xor(_, _)
Xor(x, y) ==
    IF x = 0 THEN y
    ELSE IF y = 0 THEN x
    ELSE ((x + y) % 2) + (2 * Xor(x \div 2, y \div 2))

Xor64(a, b) == [i \in 1..8 |-> Xor(a[i], b[i])]

\* -a modulo 2^64
Neg64(a) == Add64([i \in 1..8 |-> 255 - a[i]], Word(1))

\* The constants of CPython's tuple hash (_PyHASH_XXPRIME_1, _2 and _5)
XXPRIME_1 == <<135, 202, 235, 133, 177, 121, 55, 158>>    \* 11400714785074694791
XXPRIME_2 == <<79, 235, 212, 39, 61, 174, 178, 194>>    \* 14029467366897019727
XXPRIME_5 == <<197, 103, 86, 22, 47, 235, 212, 39>>    \* 2870177450012600261

\* hash() of an int n with |n| < 2^61 - 1: n itself, and -2 for -1
int_hash(n) ==
    IF n = -1 THEN Neg64(Word(2))
    ELSE IF n < 0 THEN Neg64(Word(0 - n))
    ELSE Word(n)

\* hash() of a str: CPython's keyed hash of its characters (SipHash-1-3), the
\* key derived from the process's seed.  The values are CPython's for the
\* strings and the seeds in use.
str_hash(c) ==
    CASE hashseed = 0 /\ c = "a" -> <<19, 24, 155, 184, 210, 72, 116, 64>>   \* 4644417185603328019
      [] hashseed = 0 /\ c = "b" -> <<206, 96, 251, 2, 38, 207, 34, 139>>   \* -8420940591063670578
      [] hashseed = 0 /\ c = "c" -> <<114, 16, 38, 149, 251, 107, 59, 219>>   \* -2649405227494141838
      [] hashseed = 1 /\ c = "a" -> <<115, 14, 204, 247, 201, 11, 48, 214>>   \* -3012895188637184397
      [] hashseed = 1 /\ c = "b" -> <<147, 196, 115, 151, 109, 155, 232, 114>>   \* 8280038809915344019
      [] hashseed = 1 /\ c = "c" -> <<119, 173, 63, 112, 189, 26, 67, 96>>   \* 6936417252015058295

\* hash(): of an int, of a str, and of a tuple CPython's mix of its elements'
\* hashes, which depends on their order and on the tuple's length
RECURSIVE hash(_)
RECURSIVE tuple_lanes(_, _, _)
tuple_lanes(items, i, acc) ==
    IF i > Len(items) THEN acc
    ELSE tuple_lanes(items, i + 1,
                     Mul64(Rotl31(Add64(acc, Mul64(hash(items[i]), XXPRIME_2))),
                           XXPRIME_1))

\* The word the tuple's length is mixed with: _PyHASH_XXPRIME_5 ^ 3527539
XXPRIME_5_XOR == Xor64(XXPRIME_5, Word(3527539))

\* The word of -1, which no hash is
MinusOne == Neg64(Word(1))

tuple_hash(items) ==
    LET acc == Add64(tuple_lanes(items, 1, XXPRIME_5), Xor64(Word(Len(items)), XXPRIME_5_XOR))
    IN  IF acc = MinusOne THEN Word(1546275796) ELSE acc

hash(x) ==
    IF x.t = "int" THEN int_hash(x.v)
    ELSE IF x.t = "str" THEN str_hash(x.v)
    ELSE tuple_hash(x.v)

\* The quotient and the remainder of a word by ten
DivMod10(a) ==
    LET r8 == a[8]
        r7 == (r8 % 10) * 256 + a[7]
        r6 == (r7 % 10) * 256 + a[6]
        r5 == (r6 % 10) * 256 + a[5]
        r4 == (r5 % 10) * 256 + a[4]
        r3 == (r4 % 10) * 256 + a[3]
        r2 == (r3 % 10) * 256 + a[2]
        r1 == (r2 % 10) * 256 + a[1]
    IN  [quot |-> <<r1 \div 10, r2 \div 10, r3 \div 10, r4 \div 10,
                    r5 \div 10, r6 \div 10, r7 \div 10, r8 \div 10>>,
         rem |-> r1 % 10]

\* The decimal digits of an unsigned word
RECURSIVE Digits(_)
Digits(a) ==
    LET qr == DivMod10(a)
        d == <<"0", "1", "2", "3", "4", "5", "6", "7", "8", "9">>[qr.rem + 1]
    IN  IF qr.quot = Word(0) THEN d ELSE Digits(qr.quot) \o d

\* str() of a hash value: the word is a signed integer in two's complement
str(a) == IF a[8] >= 128 THEN "-" \o Digits(Neg64(a)) ELSE Digits(a)

\* lines 17-18
config_hash(c) == str(hash(normalize_data(c)))

\* lines 137-144: Result.build_key of the four parts, the version being '0'
build_result_key(file_hash, service_name, conf_key) ==
    [service_name |-> service_name, version |-> "0", file_hash |-> file_hash,
     conf_key |-> conf_key]

\* The configurations the processes are run on
Scalars == {PyInt(1), PyStr("a")}

Keys == {"a", "b"}

DictsOver(V) ==
    { PyDict(items) : items \in
        { q \in SeqsUpTo([k : Keys, val : V], MaxItems) :
            \A i, j \in DOMAIN q : q[i].k = q[j].k => i = j } }

ListsOver(V, n) == { PyList(items) : items \in SeqsUpTo(V, n) }

Nested == Scalars \cup DictsOver(Scalars) \cup ListsOver(Scalars, MaxItems)

\* The values a structure holds, at any depth: itself, and those of its
\* mappings' values and of its sequences' elements
RECURSIVE Nodes(_)
RECURSIVE SumNodes(_, _)
SumNodes(c, i) ==
    IF i > Len(c.v) THEN 0
    ELSE Nodes(IF c.t = "dict" THEN c.v[i].val ELSE c.v[i]) + SumNodes(c, i + 1)

Nodes(c) == IF c.t \in {"dict", "list"} THEN 1 + SumNodes(c, 1) ELSE 1

Configs ==
    { c \in DictsOver(Nested) \cup ListsOver(Nested, MaxOuter) : Nodes(c) <= MaxNodes }

\* The structures that hold the items of c in any order, at any depth
RECURSIVE Rearranged(_)
Rearranged(c) ==
    IF c.t \in {"dict", "list"}
      THEN LET n == Len(c.v)
               perms == { p \in [1..n -> 1..n] : \A i, j \in 1..n : p[i] = p[j] => i = j }
               item(x) == IF c.t = "dict"
                            THEN { [k |-> x.k, val |-> y] : y \in Rearranged(x.val) }
                            ELSE Rearranged(x)
               all == UNION { item(c.v[i]) : i \in 1..n }
           IN  { [t |-> c.t, v |-> q] : q \in
                   { q \in [1..n -> all] : \E p \in perms : \A i \in 1..n : q[i] \in item(c.v[p[i]]) } }
      ELSE {c}

\* The key-sorted sequence of a mapping's (key, value) pairs:
\* the list [(k, data[k]) for k in sorted(data.keys())]
KeySortedItems(data) ==
    LET ks == SortedSeq(DictKeys(data))
    IN  PyList([i \in 1..Len(ks) |-> PyTuple(<<PyStr(ks[i]), DictGet(data, ks[i])>>)])

\* The second structure a process hashes next to c: c with its items in any
\* order, or, for a mapping, the key-sorted sequence of its pairs
Counterparts(c) ==
    Rearranged(c) \cup (IF c.t = "dict" THEN {KeySortedItems(c)} ELSE {})

\* A process starts: CPython draws the string-hash seed
StartProcess ==
    /\ hpc = "down"
    /\ hashseed' \in HashSeeds
    /\ hpc' = "up"
    /\ UNCHANGED <<config, config2, normal, hashes, result_keys>>
    /\ UNCHANGED <<svars, dvars, evars, avars>>

\* The process computes config_hash of the two structures, and normalizes
\* the normalized form of the first once more
ComputeHashes ==
    /\ hpc = "up"
    /\ normal' = <<normalize_data(config), normalize_data(config2),
                   normalize_data(normalize_data(config))>>
    /\ hashes' = <<config_hash(config), config_hash(config2)>>
    /\ hpc' = "hashed"
    /\ UNCHANGED <<config, config2, hashseed, result_keys>>
    /\ UNCHANGED <<svars, dvars, evars, avars>>

\* The process builds the result key of (file, service, config) and stores
\* its result under it
BuildKey ==
    /\ hpc = "hashed"
    /\ result_keys' = result_keys \cup {build_result_key("F1", "a", hashes[1])}
    /\ hpc' = "done"
    /\ UNCHANGED <<config, config2, hashseed, normal, hashes>>
    /\ UNCHANGED <<svars, dvars, evars, avars>>

\* The process exits, and its seed goes with it
ExitProcess ==
    /\ hpc = "done"
    /\ hpc' = "down"
    /\ hashseed' = 0
    /\ UNCHANGED <<config, config2, normal, hashes, result_keys>>
    /\ UNCHANGED <<svars, dvars, evars, avars>>

NoHashing ==
    /\ config = PyList(<<>>)
    /\ config2 = PyList(<<>>)
    /\ hpc = "off"
    /\ hashseed = 0
    /\ normal = <<>>
    /\ hashes = <<>>
    /\ result_keys = {}

----------------------------------------------------------------------------
(* ExpiryManager.try_run (src/al_core/expiry/expiry.py, lines 42-74): the  *)
(* sweeps of one expirable collection.  The datastore evaluates the        *)
(* 'now'-relative delete query at the time of each call; the clock moves   *)
(* on between the calls.                                                   *)

MaxTime == 3          \* the clock runs from 0 to MaxTime
MaxDocs == 2          \* records of the collection
TicksPerDay == 2      \* clock ticks in a day (the /DAY rounding of batch_delete)

DocIds == 1..MaxDocs

\* fs_hashmap, lines 29-32: the collections whose records have a blob
fs_hashmap == {"file", "cached_file"}

\* lines 45-50: the upper end of the query's range, expiry_ts:[* TO now-delay]
\* or, for batch_delete, [* TO now-delay/DAY] (rounded down to the day)
QueryEnd(t) ==
    IF expiry_config.batch_delete
      THEN ((t - expiry_config.delay) \div TicksPerDay) * TicksPerDay
      ELSE t - expiry_config.delay

\* The records the delete query matches when the datastore evaluates it at time t
Matching(t) == { id \in DOMAIN collection.docs : collection.docs[id] <= QueryEnd(t) }

\* line 56
DeletesStorage == expiry_config.delete_storage /\ collection.name \in fs_hashmap

\* The sweep's next call
Called(call) == calls' = Append(calls, call)

\* The clock moves on
Tick ==
    /\ xpc # "off"
    /\ now < MaxTime
    /\ now' = now + 1
    /\ UNCHANGED <<stream, collection, expiry_config, blobs, xpc, number_to_delete,
                   futures, counter, deleted, calls>>
    /\ UNCHANGED <<svars, dvars, hvars, avars>>

\* line 52: number_to_delete = collection.search(delete_query, rows=0)['total'],
\* and the tests of lines 55-56
CountExpired ==
    /\ xpc = "search"
    /\ number_to_delete' = Cardinality(Matching(now))
    /\ Called("search")
    /\ xpc' = IF Cardinality(Matching(now)) = 0 THEN "sleep"
              ELSE IF DeletesStorage THEN "submit"
              ELSE "delete"
    /\ UNCHANGED <<now, stream, collection, expiry_config, blobs, futures, counter, deleted>>
    /\ UNCHANGED <<svars, dvars, hvars, avars>>

\* line 60: the comprehension asks stream_search for the matching records;
\* the datastore evaluates the query now
StreamSearch ==
    /\ xpc = "submit"
    /\ stream' = Matching(now)
    /\ Called("stream_search")
    /\ xpc' = "stream"
    /\ UNCHANGED <<now, collection, expiry_config, blobs, number_to_delete, futures,
                   counter, deleted>>
    /\ UNCHANGED <<svars, dvars, hvars, avars>>

\* lines 59-60, one turn of the comprehension: the stream yields a record and
\* its blob deletion is submitted to the pool.  The stream yields the records
\* that matched when it was opened; a page it fetches later may also hold a
\* record that has come to match since.  The pool runs the submitted
\* deletions, and the clock moves, while the stream goes on.
SubmitDeletion(id) ==
    /\ xpc = "stream"
    /\ id \in stream \cup (Matching(now) \ DOMAIN futures)
    /\ stream' = stream \ {id}
    /\ futures' = [k \in DOMAIN futures \cup {id} |->
                      IF k = id THEN "pending" ELSE futures[k]]
    /\ UNCHANGED <<now, collection, expiry_config, blobs, xpc, number_to_delete,
                   counter, deleted, calls>>
    /\ UNCHANGED <<svars, dvars, hvars, avars>>

\* The stream is exhausted: the comprehension ends
EndStream ==
    /\ xpc = "stream"
    /\ stream = {}
    /\ xpc' = "join"
    /\ UNCHANGED <<now, stream, collection, expiry_config, blobs, number_to_delete,
                   futures, counter, deleted, calls>>
    /\ UNCHANGED <<svars, dvars, hvars, avars>>

\* A pool worker runs filestore.delete(id): the blob is deleted, or the call raises
RunDeletion(id) ==
    /\ id \in DOMAIN futures
    /\ futures[id] = "pending"
    /\ \/ /\ futures' = [futures EXCEPT ![id] = "done"]
          /\ blobs' = blobs \ {id}
       \/ /\ futures' = [futures EXCEPT ![id] = "raised"]
          /\ UNCHANGED blobs
    /\ UNCHANGED <<now, stream, collection, expiry_config, xpc, number_to_delete, counter,
                   deleted, calls>>
    /\ UNCHANGED <<svars, dvars, hvars, avars>>

\* The end of the `with` block (line 58): the executor's shutdown waits for
\* every submitted call
AllCompleted(fs) == \A id \in DOMAIN fs : fs[id] # "pending"

LeaveExecutor ==
    /\ xpc = "join"
    /\ AllCompleted(futures)
    /\ xpc' = "results"
    /\ UNCHANGED <<now, stream, collection, expiry_config, blobs, number_to_delete, futures,
                   counter, deleted, calls>>
    /\ UNCHANGED <<svars, dvars, hvars, avars>>

\* No blob deletion taken to have raised
NoneRaised(fs) == FALSE

\* lines 61-62: v.result() raises what the submitted call raised
AnyRaised(fs) == \E id \in DOMAIN fs : fs[id] = "raised"

\* lines 61-62: the exception leaves try_run, or the sweep goes on to line 67
CollectResults ==
    /\ xpc = "results"
    /\ xpc' = IF AnyRaised(futures) THEN "raised" ELSE "delete"
    /\ UNCHANGED <<now, stream, collection, expiry_config, blobs, number_to_delete, futures,
                   counter, deleted, calls>>
    /\ UNCHANGED <<svars, dvars, hvars, avars>>

\* line 67: collection.delete_matching(delete_query)
DeleteMatching ==
    /\ xpc = "delete"
    /\ collection' = [collection EXCEPT
                        !.docs = [id \in DOMAIN collection.docs \ Matching(now)
                                    |-> collection.docs[id]]]
    /\ deleted' = Matching(now)
    /\ Called("delete_matching")
    /\ xpc' = "increment"
    /\ UNCHANGED <<now, stream, expiry_config, blobs, number_to_delete, futures, counter>>
    /\ UNCHANGED <<svars, dvars, hvars, avars>>

\* line 68: counter.increment(..., increment_by=number_to_delete)
Increment ==
    /\ xpc = "increment"
    /\ counter' = counter + number_to_delete
    /\ Called("increment")
    /\ xpc' = "sleep"
    /\ UNCHANGED <<now, stream, collection, expiry_config, blobs, number_to_delete, futures, deleted>>
    /\ UNCHANGED <<svars, dvars, hvars, avars>>

\* line 74, then the next sweep
Sleep ==
    /\ xpc = "sleep"
    /\ xpc' = "search"
    /\ futures' = <<>>
    /\ deleted' = {}
    /\ calls' = <<>>
    /\ UNCHANGED <<now, stream, collection, expiry_config, blobs, number_to_delete, counter>>
    /\ UNCHANGED <<svars, dvars, hvars, avars>>

NoExpiry ==
    /\ now = 0
    /\ collection = [name |-> "none", docs |-> <<>>]
    /\ expiry_config = [delete_storage |-> FALSE, batch_delete |-> FALSE, delay |-> 0]
    /\ blobs = {}
    /\ xpc = "off"
    /\ number_to_delete = 0
    /\ stream = {}
    /\ futures = <<>>
    /\ counter = 0
    /\ deleted = {}
    /\ calls = <<>>

----------------------------------------------------------------------------
(* Archiver.run_once (src/assemblyline_core/archiver/run_archiver.py,      *)
(* lines 58-153), one collaborator call at a time.  A call on the          *)
(* datastore or on a file store may raise; run_once catches what its       *)
(* `try` block raises (lines 133-153).                                     *)

MaxMessages == 2      \* messages on the archive queue

\* The submission ids: 1 may be stored, 2 is stored nowhere
SubmissionIds == {1, 2}

\* Result keys, as their dot-separated parts: R2 is an empty result ('....e')
R1 == <<"f1", "svc", "v0", "c0">>
R2 == <<"f1", "svc", "v0", "c0", "e">>

\* line 116: r.endswith(".e")
EndsWithE(r) == r[Len(r)] = "e"

\* The submission record of id 1 as the hot store holds it
HotSubmission ==
    [expiry_ts |-> 1, archived |-> FALSE, files |-> {"f1"}, results |-> <<R1, R2>>]

\* datastore.get_file_list_from_keys(results, supplementary=True): the files
\* the results refer to
FileListFromKeys(keys) ==
    UNION { IF EndsWithE(keys[i]) THEN {} ELSE {"f2"} : i \in DOMAIN keys }

\* lines 99-100
FilesOf(sub) == sub.files \cup FileListFromKeys(sub.results)

\* The messages a producer may push: well-formed ones, of a valid and of an
\* invalid archive type, and one that is not a 3-element message
Messages ==
    { <<type, id, da>> : type \in {"submission", "alert"}, id \in SubmissionIds,
                         da \in BOOLEAN }
      \cup { <<"submission", 1>> }

Count(c, field) == [c EXCEPT ![field] = @ + 1]

\* run_once returns
Return(way) ==
    /\ apc' = "pop"
    /\ outcome' = way

\* lines 147-149: the handler of an exception raised in the `try` block
Raise ==
    /\ counters' = Count(counters, "exception")
    /\ Return("exception")

\* Every archive type taken for a valid one
AnyArchiveType(msg) == TRUE

\* line 77: archive_type == "submission"
ValidArchiveType(msg) == msg[1] = "submission"

\* lines 59-78 and 125-131: pop a message, unpack it, and test its archive type
PopMessage ==
    /\ apc = "pop"
    /\ archive_queue # <<>>
    /\ archive_queue' = Tail(archive_queue)
    /\ message' = Head(archive_queue)
    /\ fresh' = FALSE
    /\ LET msg == Head(archive_queue)
       IN  IF Len(msg) # 3
             THEN \* lines 68-70
                  /\ Return("malformed")
                  /\ UNCHANGED counters
           ELSE IF ~ValidArchiveType(msg)
             THEN \* lines 125-131
                  /\ counters' = Count(Count(counters, "received"), "invalid")
                  /\ Return("invalid")
           ELSE \* lines 77-78
                  /\ counters' = Count(Count(counters, "received"), "submission")
                  /\ apc' = "load"
                  /\ UNCHANGED outcome
    /\ UNCHANGED <<submission_loaded, hot, archive, file_archive, archivestore,
                   result_archive, stores_differ, todo_files, todo_results>>
    /\ UNCHANGED <<svars, dvars, hvars, evars>>

\* lines 80-81 and 95: datastore.submission.get_from_archive(type_id), and the
\* way on from its result
GetFromArchive ==
    /\ apc = "load"
    /\ \/ /\ IF message[2] \in DOMAIN archive
                THEN /\ submission_loaded' = archive[message[2]]
                     /\ apc' = IF message[3] THEN "delete" ELSE "gather"
                ELSE /\ apc' = "load_hot"
                     /\ UNCHANGED submission_loaded
          /\ UNCHANGED <<counters, outcome>>
       \/ /\ Raise
          /\ UNCHANGED submission_loaded
    /\ UNCHANGED <<archive_queue, message, fresh, hot, archive, file_archive, archivestore,
                   result_archive, stores_differ, todo_files, todo_results>>
    /\ UNCHANGED <<svars, dvars, hvars, evars>>

\* lines 82-92: datastore.submission.get_if_exists(type_id, archive_access=False);
\* SubmissionNotFound (line 85, handled at lines 133-134), or the expiry is
\* reset and the submission tagged
GetIfExists ==
    /\ apc = "load_hot"
    /\ \/ IF message[2] \in DOMAIN hot
             THEN /\ submission_loaded' = [hot[message[2]] EXCEPT !.expiry_ts = "None",
                                                                !.archived = TRUE]
                  /\ fresh' = TRUE
                  /\ apc' = "save"
                  /\ UNCHANGED <<counters, outcome>>
             ELSE /\ counters' = Count(counters, "not_found")
                  /\ Return("not_found")
                  /\ UNCHANGED <<submission_loaded, fresh>>
       \/ /\ Raise
          /\ UNCHANGED <<submission_loaded, fresh>>
    /\ UNCHANGED <<archive_queue, message, hot, archive, file_archive, archivestore,
                   result_archive, stores_differ, todo_files, todo_results>>
    /\ UNCHANGED <<svars, dvars, hvars, evars>>

\* lines 95-96: datastore.submission.delete(type_id, archive_access=False), of
\* a submission that is in the archive, when delete_after is set
DeleteHot ==
    /\ apc = "delete"
    /\ \/ /\ hot' = [id \in DOMAIN hot \ {message[2]} |-> hot[id]]
          /\ apc' = "gather"
          /\ UNCHANGED <<counters, outcome>>
       \/ /\ Raise
          /\ UNCHANGED hot
    /\ UNCHANGED <<archive_queue, message, submission_loaded, fresh, archive, file_archive,
                   archivestore, result_archive, stores_differ, todo_files, todo_results>>
    /\ UNCHANGED <<svars, dvars, hvars, evars>>

\* line 93: datastore.submission.save_to_archive(type_id, submission, delete_after)
SaveToArchive ==
    /\ apc = "save"
    /\ \/ /\ archive' = [id \in DOMAIN archive \cup {message[2]} |->
                           IF id = message[2] THEN submission_loaded ELSE archive[id]]
          /\ hot' = IF message[3] THEN [id \in DOMAIN hot \ {message[2]} |-> hot[id]] ELSE hot
          /\ apc' = "update"
          /\ UNCHANGED <<counters, outcome>>
       \/ /\ Raise
          /\ UNCHANGED <<archive, hot>>
    /\ UNCHANGED <<archive_queue, message, submission_loaded, fresh, file_archive,
                   archivestore, result_archive, stores_differ, todo_files, todo_results>>
    /\ UNCHANGED <<svars, dvars, hvars, evars>>

\* line 94: datastore.submission.update(type_id, [(UPDATE_SET, 'archived', True)])
UpdateHot ==
    /\ apc = "update"
    /\ \/ /\ hot' = [id \in DOMAIN hot |->
                       IF id = message[2] THEN [hot[id] EXCEPT !.archived = TRUE] ELSE hot[id]]
          /\ apc' = "gather"
          /\ UNCHANGED <<counters, outcome>>
       \/ /\ Raise
          /\ UNCHANGED hot
    /\ UNCHANGED <<archive_queue, message, submission_loaded, fresh, archive, file_archive,
                   archivestore, result_archive, stores_differ, todo_files, todo_results>>
    /\ UNCHANGED <<svars, dvars, hvars, evars>>

\* lines 99-100: the files to archive
GatherFiles ==
    /\ apc = "gather"
    /\ \/ /\ todo_files' = FilesOf(submission_loaded)
          /\ apc' = "files"
          /\ UNCHANGED <<counters, outcome>>
       \/ /\ Raise
          /\ UNCHANGED todo_files
    /\ UNCHANGED <<archive_queue, message, submission_loaded, fresh, hot, archive,
                   file_archive, archivestore, result_archive, stores_differ, todo_results>>
    /\ UNCHANGED <<svars, dvars, hvars, evars>>

\* lines 101-112, one file of the loop: file.archive, then the copy of the
\* blob when the two stores differ.  file.archive or filestore.download may
\* raise; a failed upload is logged and the loop goes on.
ArchiveFile(sha256) ==
    /\ apc = "files"
    /\ sha256 \in todo_files
    /\ \/ \* file.archive raises
          /\ counters' = Count(Count(counters, "file"), "exception")
          /\ Return("exception")
          /\ UNCHANGED <<file_archive, archivestore, todo_files>>
       \/ \* filestore.download raises
          /\ stores_differ
          /\ file_archive' = file_archive \cup {sha256}
          /\ counters' = Count(Count(counters, "file"), "exception")
          /\ Return("exception")
          /\ UNCHANGED <<archivestore, todo_files>>
       \/ \* the blob is copied, or it is empty or its upload fails
          /\ file_archive' = file_archive \cup {sha256}
          /\ \/ stores_differ /\ archivestore' = archivestore \cup {sha256}
             \/ UNCHANGED archivestore
          /\ counters' = Count(counters, "file")
          /\ todo_files' = todo_files \ {sha256}
          /\ UNCHANGED <<apc, outcome>>
    /\ UNCHANGED <<archive_queue, message, submission_loaded, fresh, hot, archive,
                   result_archive, stores_differ, todo_results>>
    /\ UNCHANGED <<svars, dvars, hvars, evars>>

\* line 115: the loop over the files has ended
FilesDone ==
    /\ apc = "files"
    /\ todo_files = {}
    /\ todo_results' = submission_loaded.results
    /\ apc' = "results"
    /\ UNCHANGED <<archive_queue, message, submission_loaded, fresh, hot, archive,
                   file_archive, archivestore, result_archive, stores_differ, todo_files,
                   counters, outcome>>
    /\ UNCHANGED <<svars, dvars, hvars, evars>>

\* lines 115-118, one result of the loop
ArchiveResult ==
    /\ apc = "results"
    /\ todo_results # <<>>
    /\ LET r == Head(todo_results)
       IN  IF EndsWithE(r)
             THEN /\ todo_results' = Tail(todo_results)
                  /\ UNCHANGED <<result_archive, counters, apc, outcome>>
             ELSE \/ /\ result_archive' = result_archive \cup {r}
                     /\ counters' = Count(counters, "result")
                     /\ todo_results' = Tail(todo_results)
                     /\ UNCHANGED <<apc, outcome>>
                  \/ /\ counters' = Count(Count(counters, "result"), "exception")
                     /\ Return("exception")
                     /\ UNCHANGED <<result_archive, todo_results>>
    /\ UNCHANGED <<archive_queue, message, submission_loaded, fresh, hot, archive,
                   file_archive, archivestore, stores_differ, todo_files>>
    /\ UNCHANGED <<svars, dvars, hvars, evars>>

\* lines 120-123: the message is processed
Archived ==
    /\ apc = "results"
    /\ todo_results = <<>>
    /\ Return("success")
    /\ UNCHANGED <<archive_queue, message, submission_loaded, fresh, hot, archive,
                   file_archive, archivestore, result_archive, stores_differ, todo_files,
                   todo_results, counters>>
    /\ UNCHANGED <<svars, dvars, hvars, evars>>

NoCounters ==
    [received |-> 0, submission |-> 0, file |-> 0, result |-> 0, invalid |-> 0,
     not_found |-> 0, exception |-> 0]

NoArchiver ==
    /\ archive_queue = <<>>
    /\ message = <<>>
    /\ submission_loaded = <<>>
    /\ fresh = FALSE
    /\ hot = <<>>
    /\ archive = <<>>
    /\ file_archive = {}
    /\ archivestore = {}
    /\ result_archive = {}
    /\ stores_differ = FALSE
    /\ todo_files = {}
    /\ todo_results = <<>>
    /\ apc = "off"
    /\ counters = NoCounters
    /\ outcome = "none"

OthersIdle == NoHashing /\ NoExpiry /\ NoArchiver

----------------------------------------------------------------------------
(* Specifications *)

\* The dispatcher's variables when only the Scheduler runs
NoDispatcher ==
    /\ dsub = [selected_categories |-> <<>>, excluded_categories |-> <<>>, files |-> {}]
    /\ sub_status = "none"
    /\ files = <<>>
    /\ scheduling = {}
    /\ task_queue = {}
    /\ working = {}
    /\ lost = {}
    /\ signals = {}
    /\ redelivered = 0
    /\ failures = [t \in AllTasks |-> 0]
    /\ enqueues = [t \in AllTasks |-> 0]
    /\ errors = {}
    /\ results = {}
    /\ metrics = [finished |-> 0, failed |-> 0, unscheduled |-> 0]

Init ==
    /\ registry \in Registries
    /\ stages \in StageLists
    /\ submission \in [selected_categories : SeqsUpTo(Selectors, MaxSelected),
                        excluded_categories : SeqsUpTo(Selectors, MaxExcluded)]
    /\ file_type \in FileTypes
    /\ pc = "start"
    /\ epc = "none"
    /\ services = <<>>
    /\ name = <<>>
    /\ found_services = {}
    /\ seen_categories = {}
    /\ expanded = {}
    /\ excluded = {}
    /\ selected = {}
    /\ schedule = <<>>
    /\ NoDispatcher
    /\ OthersIdle

Next ==
    \/ Start
    \/ ExpandPop
    \/ ExpandVisit
    \/ ReturnExcluded
    \/ ReturnSelected
    \/ Finish

Spec == Init /\ [][Next]_vars

\* build_schedule runs in one thread that nothing suspends: a statement that
\* can run does run.
FairSpec == Init /\ [][Next]_vars /\ WF_vars(Next)

\* build_schedule of a Scheduler whose stages() returns the stage list
StagesNext ==
    \/ Start
    \/ ExpandPop
    \/ ExpandVisit
    \/ ReturnExcluded
    \/ ReturnSelected
    \/ FinishWithStages

SpecStages == Init /\ [][StagesNext]_vars

\* The registries, submissions and stored results the dispatcher is run on
DispatcherRegistries ==
    { << Service(A, B, "pre", ANY, EMPTY, 2),
         Service(B, system_category, "post", ANY, EMPTY, 1) >>,
      << Service(A, B, "pre", ANY, EMPTY, 2),
         Service(AB, AB, "pre", T, EMPTY, 1),
         Service(B, system_category, "post", ANY, EMPTY, 1) >>,
      << Service(AB, A, "final", ANY, EMPTY, 2),
         Service(B, system_category, "post", ANY, EMPTY, 1) >> }

DispatcherSubmissions ==
    { [selected_categories |-> sel, excluded_categories |-> exc, files |-> {F1}] :
        sel \in {<<>>, <<B>>}, exc \in {<<>>, <<AB>>} }

StoredResults == { {}, {Result(Task(F1, B), {})} }

DispatcherInit ==
    /\ registry \in DispatcherRegistries
    /\ stages \in StageLists
    /\ submission = [selected_categories |-> <<>>, excluded_categories |-> <<>>]
    /\ file_type = <<>>
    /\ pc = "idle"
    /\ epc = "none"
    /\ services = <<>>
    /\ name = <<>>
    /\ found_services = {}
    /\ seen_categories = {}
    /\ expanded = {}
    /\ excluded = {}
    /\ selected = {}
    /\ schedule = <<>>
    /\ dsub \in DispatcherSubmissions
    /\ sub_status = "queued"
    /\ files = <<>>
    /\ scheduling = {}
    /\ task_queue = {}
    /\ working = {}
    /\ lost = {}
    /\ signals = {}
    /\ redelivered = 0
    /\ failures = [t \in AllTasks |-> 0]
    /\ enqueues = [t \in AllTasks |-> 0]
    /\ errors = {}
    /\ results \in StoredResults
    /\ metrics = [finished |-> 0, failed |-> 0, unscheduled |-> 0]
    /\ OthersIdle

SchedulerStep ==
    \/ Start
    \/ ExpandPop
    \/ ExpandVisit
    \/ ReturnExcluded
    \/ ReturnSelected
    \/ FinishWithStages

DispatcherStep ==
    \/ Ingest
    \/ \E f \in Files : ScheduleFile(f)
    \/ Scheduled
    \/ ScheduleFailed
    \/ \E sig \in signals : HandleFinished(sig)
    \/ \E sig \in signals : HandleFailed(sig)

\* MockService.run, one thread per service
WorkerStep ==
    \/ \E t \in task_queue : WorkerPop(t)
    \/ \E t \in working : WorkerDrop(t)
    \/ \E t \in working : ServiceFailed(t)
    \/ \E t \in working : ServiceFinished(t)

DispatcherNext ==
    \/ SchedulerStep
    \/ DispatcherStep
    \/ WorkerStep

SpecDispatcher == DispatcherInit /\ [][DispatcherNext]_vars

\* The dispatcher's loop, the Scheduler it calls and the service threads
\* keep running.
FairSpecDispatcher ==
    /\ DispatcherInit
    /\ [][DispatcherNext]_vars
    /\ WF_vars(SchedulerStep)
    /\ WF_vars(DispatcherStep)
    /\ WF_vars(WorkerStep)

\* The Scheduler's variables when it is not run
NoScheduler ==
    /\ registry = <<>>
    /\ stages = <<>>
    /\ submission = [selected_categories |-> <<>>, excluded_categories |-> <<>>]
    /\ file_type = <<>>
    /\ pc = "off"
    /\ epc = "none"
    /\ services = <<>>
    /\ name = <<>>
    /\ found_services = {}
    /\ seen_categories = {}
    /\ expanded = {}
    /\ excluded = {}
    /\ selected = {}
    /\ schedule = <<>>

\* config_hash in successive processes
HashInit ==
    /\ config \in Configs
    /\ config2 \in Counterparts(config)
    /\ hpc = "down"
    /\ hashseed = 0
    /\ normal = <<>>
    /\ hashes = <<>>
    /\ result_keys = {}
    /\ NoScheduler
    /\ NoDispatcher
    /\ NoExpiry
    /\ NoArchiver

HashNext ==
    \/ StartProcess
    \/ ComputeHashes
    \/ BuildKey
    \/ ExitProcess

SpecHash == HashInit /\ [][HashNext]_vars

\* One process, up to the hashes of the two structures
OneProcessNext ==
    \/ StartProcess
    \/ ComputeHashes

SpecOneProcess == HashInit /\ [][OneProcessNext]_vars

\* The sweeps of ExpiryManager.try_run over one collection
ExpiryInit ==
    /\ now = 0
    /\ collection \in [name : {"file", "cached_file", "submission"},
                        docs : [DocIds -> 0..MaxTime]]
    /\ expiry_config \in [delete_storage : BOOLEAN, batch_delete : BOOLEAN, delay : {0, 1}]
    /\ blobs = IF collection.name \in fs_hashmap THEN DocIds ELSE {}
    /\ xpc = "search"
    /\ number_to_delete = 0
    /\ stream = {}
    /\ futures = <<>>
    /\ counter = 0
    /\ deleted = {}
    /\ calls = <<>>
    /\ NoScheduler
    /\ NoDispatcher
    /\ NoHashing
    /\ NoArchiver

ExpiryNext ==
    \/ Tick
    \/ CountExpired
    \/ StreamSearch
    \/ \E id \in DocIds : SubmitDeletion(id)
    \/ EndStream
    \/ \E id \in DocIds : RunDeletion(id)
    \/ LeaveExecutor
    \/ CollectResults
    \/ DeleteMatching
    \/ Increment
    \/ Sleep

SpecExpiry == ExpiryInit /\ [][ExpiryNext]_vars

\* Archiver.run_once, called again and again (try_run, lines 155-158)
ArchiverInit ==
    /\ archive_queue \in SeqsUpTo(Messages, MaxMessages)
    /\ message = <<>>
    /\ submission_loaded = <<>>
    /\ fresh = FALSE
    /\ hot \in { <<>>, [id \in {1} |-> HotSubmission] }
    /\ archive \in { <<>>, [id \in {1} |-> [HotSubmission EXCEPT !.expiry_ts = "None",
                                                                !.archived = TRUE]] }
    /\ file_archive = {}
    /\ archivestore = {}
    /\ result_archive = {}
    /\ stores_differ \in BOOLEAN
    /\ todo_files = {}
    /\ todo_results = <<>>
    /\ apc = "pop"
    /\ counters = NoCounters
    /\ outcome = "none"
    /\ NoScheduler
    /\ NoDispatcher
    /\ NoHashing
    /\ NoExpiry

ArchiverNext ==
    \/ PopMessage
    \/ GetFromArchive
    \/ GetIfExists
    \/ DeleteHot
    \/ SaveToArchive
    \/ UpdateHot
    \/ GatherFiles
    \/ \E sha256 \in {"f1", "f2"} : ArchiveFile(sha256)
    \/ FilesDone
    \/ ArchiveResult
    \/ Archived

SpecArchiver == ArchiverInit /\ [][ArchiverNext]_vars

----------------------------------------------------------------------------
(* Properties of Scheduler.build_schedule and Scheduler.expand_categories  *)

\* The names in the buckets of a schedule
ScheduledNames(sch) == UNION { DOMAIN sch[i] : i \in DOMAIN sch }

\* A registered service passes the accept/reject filter for the file type
PassesFilter(n) ==
    LET s == GetService(registry, n)
    IN  /\ re_match(s.accepts, file_type)
        /\ (s.rejects = <<>> \/ ~re_match(s.rejects, file_type))

IsSystem(n) == GetService(registry, n).category = system_category

\* C1: every registered system-category service that passes the accept/reject
\* filter for the file type is in the returned schedule, whatever the
\* selected and excluded lists are.
C1_SystemServicesAlwaysScheduled ==
    pc = "returned" =>
        \A n \in ServiceNames(registry) :
            (IsSystem(n) /\ PassesFilter(n)) => n \in ScheduledNames(schedule)

\* C2: expand_categories terminates on every selector list: both expansions
\* of a build_schedule call come to their end (or leave the model's bound on
\* the work list), whatever the category membership is.
C2_ExpandTerminates == <>(pc \in {"filter", "returned", "raised", "cut"})

\* C8: the returned schedule holds no service whose reject pattern is set and
\* matches the file type.
C8_NoRejectedService ==
    pc = "returned" =>
        \A n \in ScheduledNames(schedule) :
            LET s == GetService(registry, n)
            IN  ~(s.rejects # <<>> /\ re_match(s.rejects, file_type))

\* C8's case: a candidate whose accept and reject patterns both match the file
\* type, at the return of build_schedule.
C8_Witness ==
    /\ pc = "returned"
    /\ \E n \in (selected \cup SystemServices(registry)) \ excluded :
          /\ HasService(registry, n)
          /\ LET s == GetService(registry, n)
             IN  /\ re_match(s.accepts, file_type)
                 /\ s.rejects # <<>>
                 /\ re_match(s.rejects, file_type)

\* C9: the returned schedule has one bucket per stage, in stage-list order,
\* and every scheduled name is in exactly one bucket, the one at the position
\* of its service's configured stage.
C9_OneBucketPerService ==
    pc = "returned" =>
        /\ Len(schedule) = Len(stages)
        /\ \A n \in ScheduledNames(schedule) :
              /\ Cardinality({ i \in DOMAIN schedule : n \in DOMAIN schedule[i] }) = 1
              /\ \A i \in DOMAIN schedule :
                    n \in DOMAIN schedule[i] => stages[i] = GetService(registry, n).stage

\* C9's case: a returned schedule with services in two different buckets and
\* an empty bucket kept in between.
C9_Witness ==
    /\ pc = "returned"
    /\ \E i, j, k \in DOMAIN schedule :
          /\ i < k /\ k < j
          /\ DOMAIN schedule[i] # {}
          /\ DOMAIN schedule[j] # {}
          /\ DOMAIN schedule[k] = {}

\* C10: the names in the returned schedule are exactly the candidates that
\* are registered and pass the accept/reject filter, the candidates being
\* (selected united with the system services) minus the expanded excluded
\* list, and selected being all registered names for an empty selected list
\* and the expansion of the selected list otherwise.
C10_ScheduleIsFilteredCandidates ==
    pc = "returned" =>
        LET sel == IF submission.selected_categories = <<>>
                     THEN ServiceNames(registry)
                     ELSE selected
            cands == (sel \cup { n \in ServiceNames(registry) : IsSystem(n) }) \ excluded
        IN  ScheduledNames(schedule)
              = { n \in cands : n \in ServiceNames(registry) /\ PassesFilter(n) }

\* C10's case: a returned schedule for a non-empty selected list whose
\* expansion holds a name the excluded list removes, a name with no service,
\* and a name that is scheduled.
C10_Witness ==
    /\ pc = "returned"
    /\ submission.selected_categories # <<>>
    /\ selected \cap excluded # {}
    /\ \E n \in selected \ excluded : ~HasService(registry, n)
    /\ ScheduledNames(schedule) # {}

\* re.fullmatch(pattern, string): the whole string matches the pattern
\* (the full-match semantics of spec.md 4.2, step 6)
RECURSIVE re_fullmatch(_, _)
re_fullmatch(p, s) ==
    IF p = <<>> THEN s = <<>>
    ELSE IF Len(p) >= 2 /\ p[2] = "*"
      THEN \E k \in 0..Len(s) :
              /\ \A i \in 1..k : p[1] = "." \/ s[i] = p[1]
              /\ re_fullmatch(SubSeq(p, 3, Len(p)), SubSeq(s, k + 1, Len(s)))
      ELSE /\ s # <<>>
           /\ (p[1] = "." \/ p[1] = s[1])
           /\ re_fullmatch(Tail(p), Tail(s))

\* C11: a service is in the returned schedule only if the whole file type
\* string matches its accept pattern; a service whose accept pattern matches
\* only a proper prefix of the file type is skipped.
C11_AcceptIsFullMatch ==
    pc = "returned" =>
        \A n \in ScheduledNames(schedule) :
            re_fullmatch(GetService(registry, n).accepts, file_type)

\* C12: a service whose accept pattern is empty (the default '') is in no
\* bucket of the returned schedule, whatever the file type is.
C12_EmptyAcceptMatchesNothing ==
    pc = "returned" =>
        \A n \in ScheduledNames(schedule) : GetService(registry, n).accepts # <<>>

\* The candidate names of the call, once both expansions have returned
CandidateNames == (selected \cup SystemServices(registry)) \ excluded

\* The candidates with a service definition that pass the accept/reject filter
Qualifying == { n \in CandidateNames : HasService(registry, n) /\ PassesFilter(n) }

\* The call has come to its end, by return or by raise
Ended == pc \in {"returned", "raised"}

\* C15: when a candidate name has no service definition, the call does not
\* raise: it ends by returning a schedule that leaves the name out and holds
\* every other qualifying service.
C15_MissingServiceSkipped ==
    (/\ Ended
     /\ \E n \in CandidateNames : ~HasService(registry, n))
    => /\ pc = "returned"
       /\ ScheduledNames(schedule) = Qualifying

\* C16: when a registered candidate names a stage that is not in the stage
\* list, the call does not fail: it returns the schedule of the remaining
\* qualifying services, the affected service left out.
C16_UnknownStageSkipped ==
    (/\ Ended
     /\ \E n \in Qualifying : ~StageKnown(GetService(registry, n).stage))
    => /\ pc = "returned"
       /\ ScheduledNames(schedule)
            = { n \in Qualifying : StageKnown(GetService(registry, n).stage) }

\* C19: during one call of expand_categories the members of a category are
\* pushed onto the work list at most once: a step that pushes the members of
\* the popped category is never taken for a category whose members this call
\* has pushed before.
C19_MembersPushedOnce ==
    [][(/\ epc = "name"
        /\ name \in DOMAIN categories(registry)
        /\ services' = services \o categories(registry)[name])
       => name \notin expanded]_vars

----------------------------------------------------------------------------
(* Properties of config_hash *)

\* Two structures differ at most in the insertion order of their mappings'
\* keys, at any depth
RECURSIVE SameUpToKeyOrder(_, _)
SameUpToKeyOrder(c1, c2) ==
    IF c1.t # c2.t THEN FALSE
    ELSE IF c1.t = "dict"
      THEN /\ DictKeys(c1) = DictKeys(c2)
           /\ \A key \in DictKeys(c1) : SameUpToKeyOrder(DictGet(c1, key), DictGet(c2, key))
    ELSE IF c1.t = "list"
      THEN /\ Len(c1.v) = Len(c2.v)
           /\ \A i \in DOMAIN c1.v : SameUpToKeyOrder(c1.v[i], c2.v[i])
    ELSE c1 = c2

\* n holds the values of c where c holds them: a sequence of c is in n a
\* tuple of the same length, its i-th element the one that holds the values
\* of the sequence's i-th element; a mapping of c is in n a tuple of one
\* (key, value) pair for each of its keys; a scalar of c is in n itself
RECURSIVE OrderKept(_, _)
OrderKept(c, n) ==
    IF c.t \in {"list", "tuple"}
      THEN /\ n.t = "tuple"
           /\ Len(n.v) = Len(c.v)
           /\ \A i \in DOMAIN c.v : OrderKept(c.v[i], n.v[i])
    ELSE IF c.t = "dict"
      THEN /\ n.t = "tuple"
           /\ Len(n.v) = Len(c.v)
           /\ \A key \in DictKeys(c) :
                 \E i \in DOMAIN n.v :
                     /\ n.v[i].t = "tuple"
                     /\ Len(n.v[i].v) = 2
                     /\ n.v[i].v[1] = PyStr(key)
                     /\ OrderKept(DictGet(c, key), n.v[i].v[2])
    ELSE n = c

\* Two structures of one shape hold, at some position of a sequence, at any
\* depth, two different values of which one is a scalar
RECURSIVE SeqDiffers(_, _)
SeqDiffers(c1, c2) ==
    IF c1.t = "list" /\ c2.t = "list"
      THEN \/ Len(c1.v) # Len(c2.v)
           \/ \E i \in DOMAIN c1.v :
                 \/ /\ c1.v[i].t \in {"int", "str"} \/ c2.v[i].t \in {"int", "str"}
                    /\ c1.v[i] # c2.v[i]
                 \/ SeqDiffers(c1.v[i], c2.v[i])
    ELSE IF c1.t = "dict" /\ c2.t = "dict"
      THEN /\ DictKeys(c1) = DictKeys(c2)
           /\ \E key \in DictKeys(c1) : SeqDiffers(DictGet(c1, key), DictGet(c2, key))
    ELSE FALSE

\* C13: in one process config_hash returns the same string for two
\* configurations that differ only in the key insertion order of their
\* mappings, at any depth; the normalized form of a configuration keeps every
\* sequence's length and the order of its elements, at any depth, and two
\* configurations of which a sequence holds different values at a position
\* have different normalized forms.
C13_KeyOrderDoesNotMatter ==
    hpc = "hashed" =>
        /\ SameUpToKeyOrder(config, config2) =>
              (normal[1] = normal[2] /\ hashes[1] = hashes[2])
        /\ OrderKept(config, normal[1])
        /\ OrderKept(config2, normal[2])
        /\ SeqDiffers(config, config2) => normal[1] # normal[2]
        /\ (config.t = "list" /\ config2.t = "list") =>
              /\ \A i \in DOMAIN config.v : normal[1].v[i] = normalize_data(config.v[i])
              /\ (\E i \in DOMAIN config.v :
                      normalize_data(config.v[i]) # normalize_data(config2.v[i]))
                   => normal[1] # normal[2]

\* C13's case: the hashes are computed for a sequence of a scalar and a
\* mapping of two keys and for the same sequence with that mapping's keys in
\* the other order.
C13_Witness ==
    /\ hpc = "hashed"
    /\ config.t = "list"
    /\ Len(config.v) = 2
    /\ config.v[1].t = "str"
    /\ config.v[2].t = "dict"
    /\ Len(config.v[2].v) = 2
    /\ config2.v[2] # config.v[2]
    /\ SameUpToKeyOrder(config, config2)
    /\ normal[1].v[1] = config.v[1]
    /\ hashes[1] = hashes[2]

\* C14: a process that has computed config_hash of the configuration builds
\* the result key that every earlier process built for it: the hash is the
\* same string in every process.
C14_HashStableAcrossProcesses ==
    hpc = "hashed" =>
        \A key \in result_keys : key = build_result_key("F1", "a", hashes[1])

\* C22: normalize_data of a configuration's normalized form is that
\* normalized form, and a mapping has the normalized form of the key-sorted
\* sequence of its (key, value) pairs, so config_hash returns the same string
\* for the mapping and for that sequence.
C22_NormalFormOfItsPairs ==
    hpc = "hashed" =>
        /\ normal[3] = normal[1]
        /\ normalize_data(normal[2]) = normal[2]
        /\ (config.t = "dict" /\ config2 = KeySortedItems(config)) =>
              (normal[1] = normal[2] /\ hashes[1] = hashes[2])

\* C22's case: the hashes are computed for a mapping of two keys inserted in
\* descending order, one of its values a mapping, and for the key-sorted
\* sequence of its pairs; the mapping's normalized form was normalized again.
C22_Witness ==
    /\ hpc = "hashed"
    /\ config.t = "dict"
    /\ Len(config.v) = 2
    /\ config.v[1].k = "b"
    /\ config.v[1].val.t = "dict"
    /\ Len(config.v[1].val.v) = 2
    /\ config2.t = "list"
    /\ config2 = KeySortedItems(config)
    /\ normal[1] = normal[2]
    /\ normal[3] = normal[1]
    /\ hashes[1] = hashes[2]

----------------------------------------------------------------------------
(* Properties of ExpiryManager.try_run *)

\* C18: in a sweep with delete_storage enabled over a blob-backed collection,
\* every record that the sweep's delete_matching deleted has had the deletion
\* of its blob issued in the same sweep, also when records pass the expiry
\* threshold between the two evaluations of the query.
C18_DeletedRecordsHadBlobDeletion ==
    DeletesStorage => deleted \subseteq DOMAIN futures

\* C20: within one sweep, delete_matching is called only when every blob
\* deletion submitted in the sweep has completed and none has raised (so not
\* at all in a sweep in which one raised), and the counter is incremented only
\* after delete_matching has returned.
C20_DeleteAfterBlobsThenCount ==
    \A i \in DOMAIN calls :
        /\ calls[i] = "delete_matching" =>
              \A id \in DOMAIN futures : futures[id] = "done"
        /\ calls[i] = "increment" =>
              \E j \in 1..(i - 1) : calls[j] = "delete_matching"

\* C20's case: a sweep that submitted two blob deletions has called
\* delete_matching and incremented the counter.
C20_Witness ==
    /\ Cardinality(DOMAIN futures) = 2
    /\ \E i \in DOMAIN calls : calls[i] = "increment"
    /\ counter > 0

----------------------------------------------------------------------------
(* Properties of Archiver.run_once *)

\* The submission is tagged archived, in the archive or in the hot store
TaggedArchived(id) ==
    \/ id \in DOMAIN archive /\ archive[id].archived
    \/ id \in DOMAIN hot /\ hot[id].archived

\* Every file of the submission and every result that is not an empty one
\* ('.e') is archived
ContentArchived(sub) ==
    /\ FilesOf(sub) \subseteq file_archive
    /\ \A i \in DOMAIN sub.results :
          ~EndsWithE(sub.results[i]) => sub.results[i] \in result_archive

\* C17: when run_once has finished with a ('submission', id, delete_after)
\* message for a submission that was in the hot store and not in the archive,
\* the archived copy has its expiry cleared and is tagged archived and the
\* submission's files and non-empty results are archived; however the call
\* ended, the submission is not left tagged archived with a file or a result
\* that is not archived.
C17_ArchivedWithItsContent ==
    (apc = "pop" /\ fresh /\ outcome \in {"success", "exception"}) =>
        LET id == message[2]
        IN  /\ outcome = "success" =>
                 /\ id \in DOMAIN archive
                 /\ archive[id].expiry_ts = "None"
                 /\ archive[id].archived
                 /\ ContentArchived(submission_loaded)
            /\ TaggedArchived(id) => ContentArchived(submission_loaded)

\* A message that run_once has nothing to archive for: it is not a
\* 3-element message, its archive type is not 'submission', or its submission
\* id is neither in the archive nor in the hot store
NothingToArchive(msg) ==
    \/ Len(msg) # 3
    \/ msg[1] # "submission"
    \/ (msg[2] \notin DOMAIN archive /\ msg[2] \notin DOMAIN hot)

\* The message of the run_once in progress, or, between two calls, the
\* message the next one pops
CurrentMessage == IF apc = "pop" THEN Head(archive_queue) ELSE message

\* C21: every step of a run_once on a message with nothing to archive, from
\* the pop on, writes nothing to the hot store, the archive, the archived
\* files and results or the archive store, and either goes on to the next
\* lookup of the submission or returns normally: from the unpacking (line
\* 70), from the else branch (lines 125-131), from the handler of
\* SubmissionNotFound (lines 133-138), or, when a lookup raised, from the
\* handler of line 147.  Of the archiver's state only the metric counters
\* change (and the message is off the queue).
C21_RejectedMessageWritesNothing ==
    [][(/\ apc = "pop" => archive_queue # <<>>
        /\ NothingToArchive(CurrentMessage))
       => /\ apc' \in {"pop", "load", "load_hot"}
          /\ apc' = "pop" => outcome' \in {"malformed", "invalid", "not_found", "exception"}
          /\ UNCHANGED <<hot, archive, file_archive, archivestore, result_archive,
                         stores_differ, todo_files, todo_results>>]_vars

\* C21's case: a run_once on a message of a submission id that is in neither
\* store has returned from the handler of line 147, a lookup having raised,
\* after a run_once that returned from SubmissionNotFound and one that
\* returned from a message that is not a 3-element message or is of an invalid
\* type; the submission in the hot store is as it was and nothing is archived.
C21_Witness ==
    /\ apc = "pop"
    /\ outcome = "exception"
    /\ Len(message) = 3
    /\ message[1] = "submission"
    /\ message[2] = 2
    /\ counters.not_found = 1
    /\ counters.exception = 1
    /\ counters.received = 2
    /\ counters.submission = 2
    /\ 1 \in DOMAIN hot
    /\ hot[1] = HotSubmission
    /\ archive = <<>>
    /\ file_archive = {}

----------------------------------------------------------------------------
(* Properties of the dispatcher *)

\* The position of a service's configured stage in the stage list
StagePosition(n) == stage_index(GetService(registry, n).stage)

\* A (file, service) pair is resolved: a result is stored for it (a success
\* or a cache hit) or a terminal error is recorded
Resolved(t) == HasResult(results, t) \/ t \in errors

\* C3: the submission pushed to the dispatcher eventually reaches status
\* 'complete', provided every enqueued task gets its finished or failed
\* signal (no service thread lets a task go without one).
C3_EventuallyComplete == <>(sub_status = "complete" \/ lost # {})

\* C4: the submission is complete only when every file it owns, the files
\* declared extracted by its stored results included, is registered and done,
\* and no task of it is outstanding or on a queue.
C4_CompleteOnlyWhenAllDone ==
    sub_status = "complete" =>
        /\ dsub.files \subseteq DOMAIN files
        /\ \A r \in results : r.task.file \in DOMAIN files => r.extracted \subseteq DOMAIN files
        /\ \A f \in DOMAIN files : files[f].state = "done" /\ files[f].outstanding = {}
        /\ task_queue = {}
        /\ working = {}

\* C4's case: the submission is complete, F2 was declared extracted by a
\* result for F1, and F2 has gone through services of its own.
C4_Witness ==
    /\ sub_status = "complete"
    /\ \E r \in results : r.task.file = F1 /\ F2 \in r.extracted
    /\ \E r \in results : r.task.file = F2
    /\ files[F2].state = "done"

\* C5: with failure limit N, a task is enqueued once and once more for each
\* of its first N failed signals; failed signal N + 1 records the terminal
\* error, never an earlier one, and the service then is no longer outstanding
\* nor on a queue.
C5_RetriesThenTerminalError ==
    \A t \in AllTasks :
        HasService(registry, t.service) =>
            LET N == GetService(registry, t.service).failure_limit
                retries == IF failures[t] < N THEN failures[t] ELSE N
            IN  /\ enqueues[t] > 0 => enqueues[t] = 1 + retries
                /\ t \in errors <=> failures[t] = N + 1
                /\ failures[t] <= N + 1
                /\ t \in errors =>
                     /\ t \notin task_queue
                     /\ t.service \notin files[t.file].outstanding

\* C5's case: a service of failure limit 2 has failed three times on a file:
\* two retries, a terminal error, and the file has left the stage.
C5_Witness ==
    \E t \in errors :
        /\ GetService(registry, t.service).failure_limit = 2
        /\ failures[t] = 3
        /\ enqueues[t] = 3
        /\ files[t.file].stage > StagePosition(t.service)

\* C6: a finished signal consumed for a pair that is already resolved changes
\* nothing of the dispatcher's state: the files and their outstanding sets
\* and stages, the queues, the stored results, the errors and the counters.
C6_DuplicateFinishedIsNoOp ==
    [][\A sig \in signals :
          (/\ sig.kind = "finished"
           /\ signals' = Consume(signals, sig)
           /\ Resolved(sig.task))
          => UNCHANGED <<files, task_queue, results, errors, failures, enqueues,
                         metrics, sub_status>>]_vars

\* C6's case: a finished signal that declared F2 was delivered twice and both
\* deliveries are consumed.
C6_Witness ==
    /\ redelivered > 0
    /\ signals = {}
    /\ metrics.finished > 0
    /\ F2 \in DOMAIN files

\* C7: the tasks on the queues are tasks of services the file waits for, the
\* services a file waits for are of one stage, no queued task is of a later
\* stage than a service still outstanding, and every service of a stage the
\* file has left is resolved.
C7_StageClosesWhenAllResolved ==
    \A f \in DOMAIN files :
        /\ \A t \in task_queue \cup working : t.file = f =>
              /\ t.service \in files[f].outstanding
              /\ \A u \in files[f].outstanding :
                    StagePosition(t.service) <= StagePosition(u)
        /\ \A i \in DOMAIN files[f].schedule : i < files[f].stage =>
              \A s \in DOMAIN files[f].schedule[i] : Resolved(Task(f, s))

\* C7's case: two services share the file's stage, one has reported and the
\* other has not, and a later stage holds a service.
C7_Witness ==
    \E f \in DOMAIN files :
        /\ files[f].state = "awaiting"
        /\ files[f].outstanding # {}
        /\ \E s \in DOMAIN files[f].schedule[files[f].stage] : Resolved(Task(f, s))
        /\ \E i \in DOMAIN files[f].schedule :
              i > files[f].stage /\ DOMAIN files[f].schedule[i] # {}

====
